---------------------------- MODULE Spec2Model ----------------------------
(***************************************************************************)
(* A model of the ray / hit record layer of embree-rs:                     *)
(*   - fixed-width SoA packets (Ray4/8/16, Hit4/8/16)      ray/packet.rs   *)
(*   - runtime-width views (RayN, HitN, RayHitN)            ray/packet.rs   *)
(*   - scalar records and the extension traits              ray.rs         *)
(*   - intersection contexts                                context.rs     *)
(* f32 and u32 values are integers; lanes are numbered from 0 as in the    *)
(* source; a [f32; 3] is the tuple <<x, y, z>>.                            *)
(***************************************************************************)
EXTENDS Integers, Sequences, FiniteSets, TLC

VARIABLES
    kind,       \* which family of records this run owns: "packet" | "view" | "scalar" | "iter" | "threads"
    width,      \* lane count N of the record (1, 4, 8 or 16)
    ray,        \* fixed-width ray packet: one array per field
    hit,        \* fixed-width hit packet: one array per field
    mem,        \* flat buffer of 4-byte elements borrowed by the runtime views
    rayhitn,    \* RayHitN { ptr, len } over mem
    obj,        \* scalar record or extension wrapper under test: [ty, v]
    written,    \* per trait, the base and extension the caller stored last
    it,         \* the lane iterator the caller holds, and what it has yielded
    thr,        \* two threads, each with its own RayHitN, calls to make and results
    last,       \* the call made last: op, field, lane, val, ret, panic, touched
    ops         \* number of calls made so far

vars == <<kind, width, ray, hit, mem, rayhitn, obj, written, it, thr, last, ops>>

---------------------------------------------------------------------------
(* Values *)

\* u32::MAX.  No arithmetic is done on u32 values, only stores, loads and
\* comparisons, so the all-ones value is the largest integer of the checker.
U32Max == 2147483647
\* crate::INVALID_ID
INVALID_ID == U32Max
\* f32::INFINITY
Inf == 1000000

\* Widths of the packet types generated by the macros, and of runtime views.
PacketWidths == {4, 8, 16}
ViewWidths == {1, 4, 8, 16}

\* Bound on the number of calls made on a packet or a view in one run.
MaxOps == 1
\* Bound on the number of calls made on a scalar record or wrapper in one run.
MaxScalarOps == 3

Lanes(n) == 0 .. (n - 1)
\* Lane indexes a caller may pass: every lane and the first one out of range.
LaneArgs(n) == 0 .. n

\* Argument values the callers pass to setters.
F32Args == {1, 2}
U32Args == {0, U32Max}
Vec3Args == {<<1, 2, 3>>, <<3, 1, 2>>}

\* Constructor inputs: lane i of seed k. Every lane and component differs.
Seeds == {0, 1}
Origins(n, k) == [i \in Lanes(n) |-> <<10 * i + k, 10 * i + k + 1, 10 * i + k + 2>>]
Dirs(n, k) == [i \in Lanes(n) |-> <<10 * i + k + 5, 10 * i + k + 6, 10 * i + k + 7>>]
\* tnears include a negative value, tfars include values below tnear.
TNears(n, k) == [i \in Lanes(n) |-> i + k - 1]
TFars(n, k) == [i \in Lanes(n) |-> IF k = 0 THEN 2 * i ELSE 3 - i]

Splat(n, v) == [i \in Lanes(n) |-> v]

NoCall == [op |-> "none", field |-> "", lane |-> 0, val |-> 0, ret |-> 0,
           panic |-> FALSE, touched |-> {}]

---------------------------------------------------------------------------
(* Fixed-width ray packets: impl_ray_packets!(Ray4, 4; Ray8, 8; Ray16, 16) *)

\* Mutant: the interval is validated, a negative tnear is raised to 0.
segment_clamped(n, origin, dir, tnear, tfar) ==
    LET elems == [f \in 0 .. 5 |-> [i \in Lanes(n) |->
                    IF f < 3 THEN origin[i][f + 1] ELSE dir[i][f - 3 + 1]]]
    IN  [org_x |-> elems[0], org_y |-> elems[1], org_z |-> elems[2],
         dir_x |-> elems[3], dir_y |-> elems[4], dir_z |-> elems[5],
         tnear |-> [i \in Lanes(n) |-> IF tnear[i] < 0 THEN 0 ELSE tnear[i]],
         tfar |-> tfar,
         time |-> Splat(n, 0), mask |-> Splat(n, U32Max),
         id |-> Splat(n, 0), flags |-> Splat(n, 0)]

segment(n, origin, dir, tnear, tfar) ==
    LET elems == [f \in 0 .. 5 |-> [i \in Lanes(n) |->
                    IF f < 3 THEN origin[i][f + 1] ELSE dir[i][f - 3 + 1]]]
    IN  [org_x |-> elems[0], org_y |-> elems[1], org_z |-> elems[2],
         dir_x |-> elems[3], dir_y |-> elems[4], dir_z |-> elems[5],
         tnear |-> tnear, tfar |-> tfar,
         time |-> Splat(n, 0), mask |-> Splat(n, U32Max),
         id |-> Splat(n, 0), flags |-> Splat(n, 0)]

\* Mutant: the default interval ends at 0 instead of +infinity.
new_finite(n, origin, dir) == segment(n, origin, dir, Splat(n, 0), Splat(n, 0))

new(n, origin, dir) == segment(n, origin, dir, Splat(n, 0), Splat(n, Inf))

\* Mutant: the interval of an empty packet ends at 0.
empty_finite(n) ==
    segment(n, Splat(n, <<0, 0, 0>>), Splat(n, <<0, 0, 0>>), Splat(n, 0), Splat(n, 0))

empty(n) ==
    segment(n, Splat(n, <<0, 0, 0>>), Splat(n, <<0, 0, 0>>), Splat(n, 0), Splat(n, Inf))

\* Mutant: the index wraps around the array length instead of being checked.
Store_wrapping(st, f, i, v) ==
    IF st.panic THEN st
    ELSE [panic |-> FALSE,
          rec |-> [st.rec EXCEPT ![f][i % Cardinality(DOMAIN st.rec[f])] = v]]

\* An indexed store self.f[i] = v: Rust checks the index against the array.
Store(st, f, i, v) ==
    IF st.panic THEN st
    ELSE IF i \in DOMAIN st.rec[f]
         THEN [panic |-> FALSE, rec |-> [st.rec EXCEPT ![f][i] = v]]
         ELSE [panic |-> TRUE, rec |-> st.rec]

Begin(self) == [panic |-> FALSE, rec |-> self]

org(self, i) == <<self.org_x[i], self.org_y[i], self.org_z[i]>>
set_org(self, i, o) ==
    Store(Store(Store(Begin(self), "org_x", i, o[1]), "org_y", i, o[2]), "org_z", i, o[3])

dir(self, i) == <<self.dir_x[i], self.dir_y[i], self.dir_z[i]>>
set_dir(self, i, d) ==
    Store(Store(Store(Begin(self), "dir_x", i, d[1]), "dir_y", i, d[2]), "dir_z", i, d[3])

tnear(self, i) == self.tnear[i]
set_tnear(self, i, t) == Store(Begin(self), "tnear", i, t)

tfar(self, i) == self.tfar[i]
set_tfar(self, i, t) == Store(Begin(self), "tfar", i, t)

time(self, i) == self.time[i]
set_time(self, i, t) == Store(Begin(self), "time", i, t)

mask(self, i) == self.mask[i]
set_mask(self, i, m) == Store(Begin(self), "mask", i, m)

id(self, i) == self.id[i]
set_id(self, i, v) == Store(Begin(self), "id", i, v)

flags(self, i) == self.flags[i]
set_flags(self, i, f) == Store(Begin(self), "flags", i, f)

RayFields == {"org", "dir", "tnear", "tfar", "time", "mask", "id", "flags"}

ArgsOf(f) ==
    CASE f \in {"org", "dir", "normal"} -> Vec3Args
      [] f \in {"tnear", "tfar", "time", "u", "v"} -> F32Args
      [] OTHER -> U32Args

\* Dispatch of the SoARay trait methods of a fixed-width packet.
SoARayGet(self, f, i) ==
    CASE f = "org" -> org(self, i)
      [] f = "dir" -> dir(self, i)
      [] f = "tnear" -> tnear(self, i)
      [] f = "tfar" -> tfar(self, i)
      [] f = "time" -> time(self, i)
      [] f = "mask" -> mask(self, i)
      [] f = "id" -> id(self, i)
      [] f = "flags" -> flags(self, i)

SoARaySet(self, f, i, v) ==
    CASE f = "org" -> set_org(self, i, v)
      [] f = "dir" -> set_dir(self, i, v)
      [] f = "tnear" -> set_tnear(self, i, v)
      [] f = "tfar" -> set_tfar(self, i, v)
      [] f = "time" -> set_time(self, i, v)
      [] f = "mask" -> set_mask(self, i, v)
      [] f = "id" -> set_id(self, i, v)
      [] f = "flags" -> set_flags(self, i, v)

---------------------------------------------------------------------------
(* Fixed-width hit packets: impl_hit_packets!(Hit4, 4; Hit8, 8; Hit16, 16) *)

\* Mutant: the ids of a new hit packet are zero-initialised.
Hit_new_zeroed(n) ==
    [Ng_x |-> Splat(n, 0), Ng_y |-> Splat(n, 0), Ng_z |-> Splat(n, 0),
     u |-> Splat(n, 0), v |-> Splat(n, 0),
     primID |-> Splat(n, 0), geomID |-> Splat(n, 0),
     instID |-> [l \in {0} |-> Splat(n, 0)]]

Hit_new(n) ==
    [Ng_x |-> Splat(n, 0), Ng_y |-> Splat(n, 0), Ng_z |-> Splat(n, 0),
     u |-> Splat(n, 0), v |-> Splat(n, 0),
     primID |-> Splat(n, INVALID_ID), geomID |-> Splat(n, INVALID_ID),
     instID |-> [l \in {0} |-> Splat(n, INVALID_ID)]]

\* self.instID[0][i] = v
StoreInst(st, i, v) ==
    IF st.panic THEN st
    ELSE IF i \in DOMAIN st.rec.instID[0]
         THEN [panic |-> FALSE, rec |-> [st.rec EXCEPT !.instID[0][i] = v]]
         ELSE [panic |-> TRUE, rec |-> st.rec]

normal(self, i) == <<self.Ng_x[i], self.Ng_y[i], self.Ng_z[i]>>
set_normal(self, i, n) ==
    Store(Store(Store(Begin(self), "Ng_x", i, n[1]), "Ng_y", i, n[2]), "Ng_z", i, n[3])

uv(self, i) == <<self.u[i], self.v[i]>>
set_u(self, i, u) == Store(Begin(self), "u", i, u)
set_v(self, i, v) == Store(Begin(self), "v", i, v)

prim_id(self, i) == self.primID[i]
set_prim_id(self, i, v) == Store(Begin(self), "primID", i, v)

geom_id(self, i) == self.geomID[i]
set_geom_id(self, i, v) == Store(Begin(self), "geomID", i, v)

inst_id(self, i) == self.instID[0][i]
set_inst_id(self, i, v) == StoreInst(Begin(self), i, v)

HitFields == {"normal", "u", "v", "prim_id", "geom_id", "inst_id"}

\* The array a hit accessor indexes first.
HitArray(self, f) ==
    CASE f = "normal" -> self.Ng_x
      [] f = "u" -> self.u
      [] f = "v" -> self.v
      [] f = "prim_id" -> self.primID
      [] f = "geom_id" -> self.geomID
      [] f = "inst_id" -> self.instID[0]

\* Dispatch of the SoAHit trait methods of a fixed-width packet; u and v are
\* read through uv().
SoAHitGet(self, f, i) ==
    CASE f = "normal" -> normal(self, i)
      [] f = "u" -> uv(self, i)[1]
      [] f = "v" -> uv(self, i)[2]
      [] f = "prim_id" -> prim_id(self, i)
      [] f = "geom_id" -> geom_id(self, i)
      [] f = "inst_id" -> inst_id(self, i)

SoAHitSet(self, f, i, v) ==
    CASE f = "normal" -> set_normal(self, i, v)
      [] f = "u" -> set_u(self, i, v)
      [] f = "v" -> set_v(self, i, v)
      [] f = "prim_id" -> set_prim_id(self, i, v)
      [] f = "geom_id" -> set_geom_id(self, i, v)
      [] f = "inst_id" -> set_inst_id(self, i, v)

\* SoAHitIter::new(packet, len): one item per lane 0 .. len-1, in lane order.
SoAHitIter_new(len) == [k \in 1 .. len |-> k - 1]

\* SoAHitRef::hit(): the lane holds a valid hit.
SoAHitRef_hit(self, i) == geom_id(self, i) # INVALID_ID

\* Mutant: geometry id 0 is taken for the invalid id.
iter_validity_zero(self, n) == [k \in 1 .. n |-> self.geomID[k - 1] # 0]

\* self.geomID.iter().map(|g| *g != INVALID_ID)
iter_validity(self, n) == [k \in 1 .. n |-> self.geomID[k - 1] # INVALID_ID]

any_hit(self, n) == \E k \in DOMAIN iter_validity(self, n) : iter_validity(self, n)[k]

iter(n) == SoAHitIter_new(n)

\* SoAHitIter::new(self, 4).filter(|h| h.hit())
IterHitsLen == 4
iter_hits(self, n) ==
    LET Valid(i) == SoAHitRef_hit(self, i)
    IN  SelectSeq(SoAHitIter_new(IterHitsLen), Valid)

---------------------------------------------------------------------------
(* Runtime-width views: RayN, HitN, RayHitN.  A view is { ptr, len }; ptr  *)
(* is an index into mem, in 4-byte elements.  Each accessor is modelled by *)
(* the tuple of element places its pointer arithmetic yields.              *)

\* Mutant: the assertion admits the index one past the last lane.
DebugAssert_inclusive(self, i) == i <= self.len

\* debug_assert!(i < self.len, "index out of bounds")
DebugAssert(self, i) == i < self.len

\* *ptr.add(k)
Add(self, k) == self.ptr + k

\* Mutant: the getters of time and tfar read each other's column.
RayNGetAt_swapped(self, f, i) ==
    CASE f = "org" ->
            <<Add(self, i), Add(self, self.len + i), Add(self, 2 * self.len + i)>>
      [] f = "dir" ->
            <<Add(self, 4 * self.len + i), Add(self, 5 * self.len + i),
              Add(self, 6 * self.len + i)>>
      [] f = "tnear" -> <<Add(self, 3 * self.len + i)>>
      [] f = "tfar" -> <<Add(self, 7 * self.len + i)>>
      [] f = "time" -> <<Add(self, 8 * self.len + i)>>
      [] f = "mask" -> <<Add(self, 9 * self.len + i)>>
      [] f = "id" -> <<Add(self, 10 * self.len + i)>>
      [] f = "flags" -> <<Add(self, 11 * self.len + i)>>

\* impl SoARay for RayN: the places each getter reads.
RayNGetAt(self, f, i) ==
    CASE f = "org" ->
            <<Add(self, i), Add(self, self.len + i), Add(self, 2 * self.len + i)>>
      [] f = "dir" ->
            <<Add(self, 4 * self.len + i), Add(self, 5 * self.len + i),
              Add(self, 6 * self.len + i)>>
      [] f = "tnear" -> <<Add(self, 3 * self.len + i)>>
      [] f = "tfar" -> <<Add(self, 8 * self.len + i)>>
      [] f = "time" -> <<Add(self, 7 * self.len + i)>>
      [] f = "mask" -> <<Add(self, 9 * self.len + i)>>
      [] f = "id" -> <<Add(self, 10 * self.len + i)>>
      [] f = "flags" -> <<Add(self, 11 * self.len + i)>>

\* Mutant: set_flags writes one column too far (12), the first of the hit.
RayNSetAt_flags12(self, f, i) ==
    CASE f = "org" ->
            <<Add(self, i), Add(self, self.len + i), Add(self, 2 * self.len + i)>>
      [] f = "dir" ->
            <<Add(self, 4 * self.len + i), Add(self, 5 * self.len + i),
              Add(self, 6 * self.len + i)>>
      [] f = "tnear" -> <<Add(self, 3 * self.len + i)>>
      [] f = "tfar" -> <<Add(self, 8 * self.len + i)>>
      [] f = "time" -> <<Add(self, 7 * self.len + i)>>
      [] f = "mask" -> <<Add(self, 9 * self.len + i)>>
      [] f = "id" -> <<Add(self, 10 * self.len + i)>>
      [] f = "flags" -> <<Add(self, 12 * self.len + i)>>

\* Mutant: set_tfar writes the time column (7) instead of the tfar column (8).
RayNSetAt_tfar7(self, f, i) ==
    CASE f = "org" ->
            <<Add(self, i), Add(self, self.len + i), Add(self, 2 * self.len + i)>>
      [] f = "dir" ->
            <<Add(self, 4 * self.len + i), Add(self, 5 * self.len + i),
              Add(self, 6 * self.len + i)>>
      [] f = "tnear" -> <<Add(self, 3 * self.len + i)>>
      [] f = "tfar" -> <<Add(self, 7 * self.len + i)>>
      [] f = "time" -> <<Add(self, 7 * self.len + i)>>
      [] f = "mask" -> <<Add(self, 9 * self.len + i)>>
      [] f = "id" -> <<Add(self, 10 * self.len + i)>>
      [] f = "flags" -> <<Add(self, 11 * self.len + i)>>

\* impl SoARay for RayN: the places each setter writes.
RayNSetAt(self, f, i) ==
    CASE f = "org" ->
            <<Add(self, i), Add(self, self.len + i), Add(self, 2 * self.len + i)>>
      [] f = "dir" ->
            <<Add(self, 4 * self.len + i), Add(self, 5 * self.len + i),
              Add(self, 6 * self.len + i)>>
      [] f = "tnear" -> <<Add(self, 3 * self.len + i)>>
      [] f = "tfar" -> <<Add(self, 8 * self.len + i)>>
      [] f = "time" -> <<Add(self, 7 * self.len + i)>>
      [] f = "mask" -> <<Add(self, 9 * self.len + i)>>
      [] f = "id" -> <<Add(self, 10 * self.len + i)>>
      [] f = "flags" -> <<Add(self, 11 * self.len + i)>>

\* Mutant: inst_id reads one column too far (8), past the end of the hit.
HitNGetAt_inst8(self, f, i) ==
    CASE f = "normal" ->
            <<Add(self, i), Add(self, self.len + i), Add(self, 2 * self.len + i)>>
      [] f = "u" -> <<Add(self, 3 * self.len + i)>>
      [] f = "v" -> <<Add(self, 4 * self.len + i)>>
      [] f = "prim_id" -> <<Add(self, 5 * self.len + i)>>
      [] f = "geom_id" -> <<Add(self, 6 * self.len + i)>>
      [] f = "inst_id" -> <<Add(self, 8 * self.len + i)>>

\* Mutant: the getters of primID and geomID read each other's column.
HitNGetAt_swapped(self, f, i) ==
    CASE f = "normal" ->
            <<Add(self, i), Add(self, self.len + i), Add(self, 2 * self.len + i)>>
      [] f = "u" -> <<Add(self, 3 * self.len + i)>>
      [] f = "v" -> <<Add(self, 4 * self.len + i)>>
      [] f = "prim_id" -> <<Add(self, 6 * self.len + i)>>
      [] f = "geom_id" -> <<Add(self, 5 * self.len + i)>>
      [] f = "inst_id" -> <<Add(self, 7 * self.len + i)>>

\* impl SoAHit for HitN: the places each getter reads; u and v are the two
\* elements uv() reads.
HitNGetAt(self, f, i) ==
    CASE f = "normal" ->
            <<Add(self, i), Add(self, self.len + i), Add(self, 2 * self.len + i)>>
      [] f = "u" -> <<Add(self, 3 * self.len + i)>>
      [] f = "v" -> <<Add(self, 4 * self.len + i)>>
      [] f = "prim_id" -> <<Add(self, 5 * self.len + i)>>
      [] f = "geom_id" -> <<Add(self, 6 * self.len + i)>>
      [] f = "inst_id" -> <<Add(self, 7 * self.len + i)>>

\* Mutant: set_v writes the u column (3) instead of the v column (4).
HitNSetAt_v3(self, f, i) ==
    CASE f = "normal" ->
            <<Add(self, i), Add(self, self.len + i), Add(self, 2 * self.len + i)>>
      [] f = "u" -> <<Add(self, 3 * self.len + i)>>
      [] f = "v" -> <<Add(self, 3 * self.len + i)>>
      [] f = "prim_id" -> <<Add(self, 5 * self.len + i)>>
      [] f = "geom_id" -> <<Add(self, 6 * self.len + i)>>
      [] f = "inst_id" -> <<Add(self, 7 * self.len + i)>>

\* impl SoAHit for HitN: the places each setter writes.
HitNSetAt(self, f, i) ==
    CASE f = "normal" ->
            <<Add(self, i), Add(self, self.len + i), Add(self, 2 * self.len + i)>>
      [] f = "u" -> <<Add(self, 3 * self.len + i)>>
      [] f = "v" -> <<Add(self, 4 * self.len + i)>>
      [] f = "prim_id" -> <<Add(self, 5 * self.len + i)>>
      [] f = "geom_id" -> <<Add(self, 6 * self.len + i)>>
      [] f = "inst_id" -> <<Add(self, 7 * self.len + i)>>

\* Dereference: the value a getter returns, the buffer a setter leaves.
IsVec(f) == f \in {"org", "dir", "normal"}
Load(m, at, f) == IF IsVec(f) THEN [k \in DOMAIN at |-> m[at[k]]] ELSE m[at[1]]
\* Mutant: the store goes to a copy of the buffer and is lost.
StoreAt_copy(m, at, f, v) == m

StoreAt(m, at, f, v) ==
    IF IsVec(f)
    THEN [m EXCEPT ![at[1]] = v[1], ![at[2]] = v[2], ![at[3]] = v[3]]
    ELSE [m EXCEPT ![at[1]] = v]
Places(at) == {at[k] : k \in DOMAIN at}

\* Mutant: the hit point is taken at the start of the interval.
RayN_hit_point_tnear(self, m, i) ==
    LET p == Load(m, RayNGetAt(self, "org", i), "org")
        d == Load(m, RayNGetAt(self, "dir", i), "dir")
        t == Load(m, RayNGetAt(self, "tnear", i), "tnear")
    IN  <<p[1] + d[1] * t, p[2] + d[2] * t, p[3] + d[3] * t>>

\* RayN::hit_point(i), past its assertion: org(i) + dir(i) * tfar(i).
RayN_hit_point(self, m, i) ==
    LET p == Load(m, RayNGetAt(self, "org", i), "org")
        d == Load(m, RayNGetAt(self, "dir", i), "dir")
        t == Load(m, RayNGetAt(self, "tfar", i), "tfar")
    IN  <<p[1] + d[1] * t, p[2] + d[2] * t, p[3] + d[3] * t>>

\* Mutant: every ray view is placed over one process-wide buffer.
ray_n_static(self) == [ptr |-> 0, len |-> self.len]

ray_n(self) == [ptr |-> self.ptr, len |-> self.len]
\* Mutant: the hit region is placed 8 columns (the hit's own field count)
\* past the base instead of 12.
hit_n_8(self) == [ptr |-> self.ptr + 8 * self.len, len |-> self.len]

hit_n(self) == [ptr |-> self.ptr + 12 * self.len, len |-> self.len]

---------------------------------------------------------------------------
(* Memory image of the sys records the views are placed over.              *)

\* Field order of sys::RTCRay / RTCRay4 / RTCRay8 / RTCRay16.
RTCRayOrder ==
    <<"org_x", "org_y", "org_z", "tnear", "dir_x", "dir_y", "dir_z", "time",
      "tfar", "mask", "id", "flags">>
\* Field order of sys::RTCHit / RTCHit4 / RTCHit8 / RTCHit16.
RTCHitOrder == <<"Ng_x", "Ng_y", "Ng_z", "u", "v", "primID", "geomID", "instID">>

\* The elements of a ray-hit record of width n laid out from element base.
RTCRayHitImage(r, h, n, base) ==
    [a \in 0 .. (base + 20 * n - 1) |->
        IF a < base THEN 0
        ELSE LET o == a - base
             IN  IF o < 12 * n
                 THEN r[RTCRayOrder[(o \div n) + 1]][o % n]
                 ELSE LET name == RTCHitOrder[((o - 12 * n) \div n) + 1]
                      IN  IF name = "instID" THEN h.instID[0][o % n] ELSE h[name][o % n]]

\* The ray packet of width n stored at element ptr of buffer m.
RTCRayAt(m, ptr, n) ==
    [name \in {RTCRayOrder[k] : k \in DOMAIN RTCRayOrder} |->
        LET k == CHOOSE j \in DOMAIN RTCRayOrder : RTCRayOrder[j] = name
        IN  [i \in Lanes(n) |-> m[ptr + (k - 1) * n + i]]]

\* The hit packet of width n stored at element ptr of buffer m.
RTCHitAt(m, ptr, n) ==
    LET Col(k) == [i \in Lanes(n) |-> m[ptr + (k - 1) * n + i]]
    IN  [Ng_x |-> Col(1), Ng_y |-> Col(2), Ng_z |-> Col(3), u |-> Col(4), v |-> Col(5),
         primID |-> Col(6), geomID |-> Col(7), instID |-> [l \in {0} |-> Col(8)]]

---------------------------------------------------------------------------
(* Scalar records (ray.rs) and intersection contexts (context.rs)          *)

Ray_segment(origin, direction, tn, tf) ==
    [org_x |-> origin[1], org_y |-> origin[2], org_z |-> origin[3], tnear |-> tn,
     dir_x |-> direction[1], dir_y |-> direction[2], dir_z |-> direction[3], tfar |-> tf,
     time |-> 0, mask |-> U32Max, id |-> 0, flags |-> 0]

Ray_new(origin, direction) == Ray_segment(origin, direction, 0, Inf)

Ray_org(self) == <<self.org_x, self.org_y, self.org_z>>
Ray_dir(self) == <<self.dir_x, self.dir_y, self.dir_z>>

Hit_default ==
    [Ng_x |-> 0, Ng_y |-> 0, Ng_z |-> 0, u |-> 0, v |-> 0,
     primID |-> INVALID_ID, geomID |-> INVALID_ID, instID |-> <<INVALID_ID>>]

RayHit_new(r) == [ray |-> r, hit |-> Hit_default]

\* Mutant: validity read from the primitive id.
RayHit_is_valid_prim(self) == self.hit.primID # INVALID_ID

RayHit_is_valid(self) == self.hit.geomID # INVALID_ID

RayHit_hit_point(self) ==
    LET t == self.ray.tfar
    IN  <<self.ray.org_x + self.ray.dir_x * t,
          self.ray.org_y + self.ray.dir_y * t,
          self.ray.org_z + self.ray.dir_z * t>>

IntersectContext_new(fl) == [flags |-> fl, filter |-> <<>>, instID |-> <<U32Max>>]
IntersectContext_coherent == IntersectContext_new("COHERENT")
IntersectContext_incoherent == IntersectContext_new("INCOHERENT")

IntersectContextExt_new(fl, extra) == [ctx |-> IntersectContext_new(fl), ext |-> extra]
IntersectContextExt_coherent(extra) == [ctx |-> IntersectContext_coherent, ext |-> extra]
\* Mutant: incoherent(extra) wraps the coherent context.
IntersectContextExt_incoherent_coherent(extra) == [ctx |-> IntersectContext_coherent, ext |-> extra]

IntersectContextExt_incoherent(extra) == [ctx |-> IntersectContext_incoherent, ext |-> extra]

\* struct RayExt<E> { ray: Ray, ext: E } and struct RayHitExt<E> { ray: RayHit, ext: E }
\* Mutant: the wrapper keeps a default payload instead of the caller's.
RayExt_default(r, e) == [ray |-> r, ext |-> <<0, 0>>]

RayExt(r, e) == [ray |-> r, ext |-> e]
RayHitExt(rh, e) == [ray |-> rh, ext |-> e]

(* A reference into a value is the path of fields it names: <<>> is the    *)
(* value itself (self), <<"ext">> its field ext.  Option<&T> is <<>> for   *)
(* None and <<path>> for Some(path).                                       *)
None == <<>>
Some(x) == <<x>>
Self == <<>>
Field(name) == <<name>>
Deref(x, path) == IF path = <<>> THEN x ELSE x[path[1]]
Assign(x, path, v) == IF path = <<>> THEN v ELSE [x EXCEPT ![path[1]] = v]

\* AsRay for RayExt<E> and AsRayHit for RayHitExt<E>: the base is the field
\* ray, the extension the field ext.
RayExt_as_ray(self) == Field("ray")
RayExt_as_ray_mut(self) == Field("ray")
RayExt_as_ext(self) == Some(Field("ext"))
RayExt_as_ext_mut(self) == Some(Field("ext"))
RayHitExt_as_ray_hit(self) == Field("ray")
RayHitExt_as_ray_hit_mut(self) == Field("ray")
RayHitExt_as_ext(self) == Some(Field("ext"))
RayHitExt_as_ext_mut(self) == Some(Field("ext"))

---------------------------------------------------------------------------
(* Lane iterators.  SoARayIter, SoARayIterMut and SoAHitIter hold the      *)
(* packet, a cursor and a length; an item is the lane index it refers to.  *)

Cursor(len) == [cur |-> 0, len |-> len]

\* Iterator::next of the lane iterators.
Cursor_next(self) ==
    IF self.cur >= self.len THEN [item |-> None, it |-> self]
    ELSE [item |-> Some(self.cur), it |-> [self EXCEPT !.cur = self.cur + 1]]

\* Mutant: every ray iterator is built over 4 lanes.
ray_iter_4(n) == Cursor(4)

\* SoARayIter::new(self, $n)
ray_iter(n) == Cursor(n)

\* SoARayIterMut::new(self, $n)
ray_iter_mut(n) == Cursor(n)

\* SoAHitIter::new(self, $n), as a cursor over the items of iter.
hit_iter(n) == Cursor(Len(iter(n)))

\* Mutant: the hit half of the pair starts one lane ahead.
RayHit4_iter_skewed == [a |-> ray_iter(4), b |-> [hit_iter(4) EXCEPT !.cur = 1]]

\* self.ray.iter().zip(self.hit.iter())
RayHit4_iter == [a |-> ray_iter(4), b |-> hit_iter(4)]

\* Zip::next: the first iterator is advanced, then the second.
Zip_next(self) ==
    LET x == Cursor_next(self.a)
    IN  IF x.item = None THEN [item |-> None, it |-> [self EXCEPT !.a = x.it]]
        ELSE LET y == Cursor_next(self.b)
             IN  IF y.item = None
                 THEN [item |-> None, it |-> [a |-> x.it, b |-> y.it]]
                 ELSE [item |-> Some(<<x.item[1], y.item[1]>>),
                       it |-> [a |-> x.it, b |-> y.it]]

---------------------------------------------------------------------------
(* Trait dispatch: which type implements which trait, and how.             *)

Impls ==
    {<<"AsRay", "Ray">>, <<"AsRay", "RayHit">>, <<"AsRayHit", "RayHit">>,
     <<"AsRay", "RayExt">>, <<"AsRayHit", "RayHitExt">>,
     <<"AsIntersectContext", "IntersectContext">>,
     <<"AsIntersectContext", "IntersectContextExt">>}

\* The Ext<E> wrappers: a base record followed by the caller's payload.
Wrappers == {"RayExt", "RayHitExt", "IntersectContextExt"}
TraitsOf(ty) == {im[1] : im \in {x \in Impls : x[2] = ty}}

\* Mutant: the extended context hands out itself as the base context.
as_base_ctx_self(tr, ty, self) ==
    CASE tr = "AsRay" /\ ty = "Ray" -> Self
      [] tr = "AsRay" /\ ty = "RayHit" -> Field("ray")
      [] tr = "AsRayHit" /\ ty = "RayHit" -> Self
      [] tr = "AsRay" /\ ty = "RayExt" -> RayExt_as_ray(self)
      [] tr = "AsRayHit" /\ ty = "RayHitExt" -> RayHitExt_as_ray_hit(self)
      [] tr = "AsIntersectContext" /\ ty = "IntersectContext" -> Self
      [] tr = "AsIntersectContext" /\ ty = "IntersectContextExt" -> Self

\* as_ray / as_ray_hit / as_context of each impl.
as_base(tr, ty, self) ==
    CASE tr = "AsRay" /\ ty = "Ray" -> Self
      [] tr = "AsRay" /\ ty = "RayHit" -> Field("ray")
      [] tr = "AsRayHit" /\ ty = "RayHit" -> Self
      [] tr = "AsRay" /\ ty = "RayExt" -> RayExt_as_ray(self)
      [] tr = "AsRayHit" /\ ty = "RayHitExt" -> RayHitExt_as_ray_hit(self)
      [] tr = "AsIntersectContext" /\ ty = "IntersectContext" -> Self
      [] tr = "AsIntersectContext" /\ ty = "IntersectContextExt" -> Field("ctx")

\* as_ray_mut / as_ray_hit_mut / as_mut_context of each impl.
as_base_mut(tr, ty, self) ==
    CASE tr = "AsRay" /\ ty = "Ray" -> Self
      [] tr = "AsRay" /\ ty = "RayHit" -> Field("ray")
      [] tr = "AsRayHit" /\ ty = "RayHit" -> Self
      [] tr = "AsRay" /\ ty = "RayExt" -> RayExt_as_ray_mut(self)
      [] tr = "AsRayHit" /\ ty = "RayHitExt" -> RayHitExt_as_ray_hit_mut(self)
      [] tr = "AsIntersectContext" /\ ty = "IntersectContext" -> Self
      [] tr = "AsIntersectContext" /\ ty = "IntersectContextExt" -> Field("ctx")

\* Mutant: the extended context reports no extension.
as_ext_ctx_none(tr, ty, self) ==
    CASE tr = "AsRay" /\ ty = "Ray" -> None
      [] tr = "AsRay" /\ ty = "RayHit" -> Some(Field("hit"))
      [] tr = "AsRayHit" /\ ty = "RayHit" -> None
      [] tr = "AsRay" /\ ty = "RayExt" -> RayExt_as_ext(self)
      [] tr = "AsRayHit" /\ ty = "RayHitExt" -> RayHitExt_as_ext(self)
      [] tr = "AsIntersectContext" /\ ty = "IntersectContext" -> None
      [] tr = "AsIntersectContext" /\ ty = "IntersectContextExt" -> None

\* as_ext / as_extended of each impl.
as_ext(tr, ty, self) ==
    CASE tr = "AsRay" /\ ty = "Ray" -> None
      [] tr = "AsRay" /\ ty = "RayHit" -> Some(Field("hit"))
      [] tr = "AsRayHit" /\ ty = "RayHit" -> None
      [] tr = "AsRay" /\ ty = "RayExt" -> RayExt_as_ext(self)
      [] tr = "AsRayHit" /\ ty = "RayHitExt" -> RayHitExt_as_ext(self)
      [] tr = "AsIntersectContext" /\ ty = "IntersectContext" -> None
      [] tr = "AsIntersectContext" /\ ty = "IntersectContextExt" -> Some(Field("ext"))

\* as_ext_mut / as_mut_extended of each impl.
as_ext_mut(tr, ty, self) ==
    CASE tr = "AsRay" /\ ty = "Ray" -> None
      [] tr = "AsRay" /\ ty = "RayHit" -> Some(Field("hit"))
      [] tr = "AsRayHit" /\ ty = "RayHit" -> None
      [] tr = "AsRay" /\ ty = "RayExt" -> RayExt_as_ext_mut(self)
      [] tr = "AsRayHit" /\ ty = "RayHitExt" -> RayHitExt_as_ext_mut(self)
      [] tr = "AsIntersectContext" /\ ty = "IntersectContext" -> None
      [] tr = "AsIntersectContext" /\ ty = "IntersectContextExt" -> Some(Field("ext"))

\* Extension payloads E = (u32, u32) the callers attach.
ExtArgs == {<<7, 9>>, <<1, 2>>}

\* The values a caller builds before a query.
Construct(ty, k, e, fl) ==
    LET r == Ray_segment(Origins(1, k)[0], Dirs(1, k)[0], TNears(1, k)[0], TFars(1, k)[0])
    IN  CASE ty = "Ray" -> r
          [] ty = "RayHit" -> RayHit_new(r)
          [] ty = "RayExt" -> RayExt(r, e)
          [] ty = "RayHitExt" -> RayHitExt(RayHit_new(r), e)
          [] ty = "IntersectContext" -> IntersectContext_new(fl)
          [] ty = "IntersectContextExt" -> IntersectContextExt_new(fl, e)

\* The orders in which a build may lay out the fields of a type.  A struct
\* marked #[repr(C)] (IntersectContextExt, and the bindgen records behind
\* Ray, RayHit and IntersectContext) keeps its declaration order; a struct
\* without a repr attribute (RayExt, RayHitExt) has the default
\* representation, whose field order the compiler chooses.
Layouts(ty) ==
    CASE ty \in {"RayExt", "RayHitExt"} -> {<<"ray", "ext">>, <<"ext", "ray">>}
      [] ty = "IntersectContextExt" -> {<<"ctx", "ext">>}
      [] ty = "RayHit" -> {<<"ray", "hit">>}
      [] OTHER -> {<<>>}

\* `reference as *const T`: the position of the referenced place inside the
\* value, counted in fields from the value's own address (0 = same address).
OffsetOf(lay, path) ==
    IF path = Self THEN 0
    ELSE (CHOOSE i \in 1 .. Len(lay) : lay[i] = path[1]) - 1

\* as_ray_ptr / as_ray_hit_ptr / as_context_ptr (provided methods).
as_base_ptr(tr, o) == OffsetOf(o.lay, as_base(tr, o.ty, o.v))

\* as_ray_mut_ptr / as_ray_hit_mut_ptr / as_mut_context_ptr.
as_base_mut_ptr(tr, o) == OffsetOf(o.lay, as_base_mut(tr, o.ty, o.v))

\* What the base and the extension of a value hold, read through trait tr.
BaseOf(tr, o) == Deref(o.v, as_base(tr, o.ty, o.v))
ExtOf(tr, o) ==
    IF as_ext(tr, o.ty, o.v) = None THEN None
    ELSE Some(Deref(o.v, as_ext(tr, o.ty, o.v)[1]))

\* A caller's write through a mutable base reference: tfar of the ray, or
\* the instance id slot of the context.
PokeBase(tr, base, x) ==
    CASE tr = "AsRay" -> [base EXCEPT !.tfar = x]
      [] tr = "AsRayHit" -> [base EXCEPT !.ray.tfar = x]
      [] tr = "AsIntersectContext" -> [base EXCEPT !.instID = <<x>>]

\* A caller's write through a mutable extension reference.
PokeExt(tr, ty, cur, e) ==
    IF tr = "AsRay" /\ ty = "RayHit" THEN [cur EXCEPT !.geomID = e[1]] ELSE e

---------------------------------------------------------------------------
(* Initial states: the records a caller owns after construction.           *)

NoObj == [ty |-> "none", v |-> <<>>, lay |-> <<>>]
NoView == [ptr |-> 0, len |-> 0]

\* One call of a run of the given kind, while the run's bound allows it.
Step(k, max) == kind = k /\ ops < max /\ ops' = ops + 1

NoIter == [of |-> "none", st |-> <<>>, out |-> <<>>, done |-> FALSE, gen |-> 0]

\* A call changes at most the variables named in S (and last, ops).
Only(S) ==
    /\ UNCHANGED <<kind, width, rayhitn, it, thr>>
    /\ "ray" \in S \/ ray' = ray
    /\ "hit" \in S \/ hit' = hit
    /\ "mem" \in S \/ mem' = mem
    /\ "obj" \in S \/ obj' = obj
    /\ "written" \in S \/ written' = written

Call(op, f, i, v, r, p, t) ==
    [op |-> op, field |-> f, lane |-> i, val |-> v, ret |-> r, panic |-> p, touched |-> t]

InitPacket ==
    /\ kind = "packet"
    /\ width \in PacketWidths
    /\ \E k \in Seeds :
          ray = segment(width, Origins(width, k), Dirs(width, k),
                        TNears(width, k), TFars(width, k))
    /\ hit = Hit_new(width)
    /\ mem = <<>>
    /\ rayhitn = NoView
    /\ obj = NoObj
    /\ written = <<>>
    /\ it = NoIter
    /\ thr = <<>>
    /\ last = NoCall
    /\ ops = 0

\* The engine hands a callback a RayHitN over the caller's ray-hit record.
InitView ==
    /\ kind = "view"
    /\ width \in ViewWidths
    /\ \E k \in {1}, b \in {0, 5} :
          /\ rayhitn = [ptr |-> b, len |-> width]
          /\ mem = RTCRayHitImage(
                      segment(width, Origins(width, k), Dirs(width, k),
                              TNears(width, k), TFars(width, k)),
                      Hit_new(width), width, b)
    /\ ray = <<>>
    /\ hit = <<>>
    /\ obj = NoObj
    /\ written = <<>>
    /\ it = NoIter
    /\ thr = <<>>
    /\ last = NoCall
    /\ ops = 0

InitScalar ==
    /\ kind = "scalar"
    /\ width = 1
    /\ \E ty \in {im[2] : im \in Impls}, k \in Seeds, e \in ExtArgs, fl \in {"COHERENT", "INCOHERENT"} :
          /\ \E lay \in Layouts(ty) : obj = [ty |-> ty, v |-> Construct(ty, k, e, fl), lay |-> lay]
          /\ written = [tr \in TraitsOf(ty) |->
                          [base |-> BaseOf(tr, obj),
                           ext |-> IF ty \in Wrappers THEN Some(e) ELSE ExtOf(tr, obj)]]
    /\ ray = <<>>
    /\ hit = <<>>
    /\ mem = <<>>
    /\ rayhitn = NoView
    /\ it = NoIter
    /\ thr = <<>>
    /\ last = NoCall
    /\ ops = 0

\* A caller that walks the lanes of its packets with iterators.
InitIter ==
    /\ kind = "iter"
    /\ width \in PacketWidths
    /\ \E k \in Seeds :
          ray = segment(width, Origins(width, k), Dirs(width, k),
                        TNears(width, k), TFars(width, k))
    /\ hit = Hit_new(width)
    /\ mem = <<>>
    /\ rayhitn = NoView
    /\ obj = NoObj
    /\ written = <<>>
    /\ it = NoIter
    /\ thr = <<>>
    /\ last = NoCall
    /\ ops = 0

\* The calls a thread makes on the views of its own RayHitN: one setter,
\* then one getter.
Programs(n) ==
    LET Cells == {"tfar", "flags", "normal", "inst_id"} \X {0, n - 1}
        View(f) == IF f \in HitFields THEN "hit" ELSE "ray"
    IN  {<<[op |-> "set", view |-> View(w[1]), field |-> w[1], lane |-> w[2],
            val |-> IF IsVec(w[1]) THEN <<1, 2, 3>> ELSE 2],
           [op |-> "get", view |-> View(r[1]), field |-> r[1], lane |-> r[2], val |-> 0]>> :
         w \in Cells, r \in Cells}

\* Two threads in one address space: the buffer of thread 1 starts at
\* element 0, the buffer of thread 2 right behind it.
InitThreads ==
    /\ kind = "threads"
    /\ width \in {1, 4}
    /\ mem = [a \in 0 .. (40 * width - 1) |->
                RTCRayHitImage(segment(width, Origins(width, 0), Dirs(width, 0),
                                       TNears(width, 0), TFars(width, 0)),
                               Hit_new(width), width,
                               IF a < 20 * width THEN 0 ELSE 20 * width)[a]]
    /\ \E p1 \in Programs(width), p2 \in Programs(width) :
          thr = [mem0 |-> mem,
                 t |-> <<[rhn |-> [ptr |-> 0, len |-> width], prog |-> p1,
                          pc |-> 0, rets |-> <<>>],
                         [rhn |-> [ptr |-> 20 * width, len |-> width], prog |-> p2,
                          pc |-> 0, rets |-> <<>>]>>]
    /\ ray = <<>>
    /\ hit = <<>>
    /\ rayhitn = NoView
    /\ obj = NoObj
    /\ written = <<>>
    /\ it = NoIter
    /\ last = NoCall
    /\ ops = 0

Init == InitPacket \/ InitView \/ InitScalar \/ InitIter \/ InitThreads

---------------------------------------------------------------------------
(* Calls on fixed-width packets.                                           *)


PktNew ==
    /\ Step("packet", MaxOps)
    /\ \E k \in Seeds :
          /\ ray' = new(width, Origins(width, k), Dirs(width, k))
          /\ last' = Call("new", "", 0, k, 0, FALSE, {})
    /\ Only({"ray"})

PktSegment ==
    /\ Step("packet", MaxOps)
    /\ \E k \in Seeds :
          /\ ray' = segment(width, Origins(width, k), Dirs(width, k),
                            TNears(width, k), TFars(width, k))
          /\ last' = Call("segment", "", 0, k, 0, FALSE, {})
    /\ Only({"ray"})

PktEmpty ==
    /\ Step("packet", MaxOps)
    /\ ray' = empty(width)
    /\ last' = Call("empty", "", 0, 0, 0, FALSE, {})
    /\ Only({"ray"})

PktHitNew ==
    /\ Step("packet", MaxOps)
    /\ hit' = Hit_new(width)
    /\ last' = Call("hit_new", "", 0, 0, 0, FALSE, {})
    /\ Only({"hit"})

\* RayHit4::new(ray): the ray packet given, with a new hit packet.
RayHit4_new(r) == [ray |-> r, hit |-> Hit_new(4)]

PktRayHit4New ==
    /\ Step("packet", MaxOps)
    /\ width = 4
    /\ \E r \in {ray, empty(4)} :
          /\ ray' = RayHit4_new(r).ray
          /\ hit' = RayHit4_new(r).hit
    /\ last' = Call("RayHit4::new", "", 0, 0, 0, FALSE, {})
    /\ Only({"ray", "hit"})

PktRaySet ==
    /\ Step("packet", MaxOps)
    /\ \E f \in RayFields, i \in LaneArgs(width) : \E v \in ArgsOf(f) :
          LET r == SoARaySet(ray, f, i, v)
          IN  /\ ray' = r.rec
              /\ last' = Call("ray_set", f, i, v, 0, r.panic, {})
    /\ Only({"ray"})

PktRayGet ==
    /\ Step("packet", MaxOps)
    /\ \E f \in RayFields, i \in LaneArgs(width) :
          \* the array the accessor indexes first
          last' = IF i \in DOMAIN ray[CASE f = "org" -> "org_x" [] f = "dir" -> "dir_x" [] OTHER -> f]
                  THEN Call("ray_get", f, i, 0, SoARayGet(ray, f, i), FALSE, {})
                  ELSE Call("ray_get", f, i, 0, 0, TRUE, {})
    /\ Only({})

PktHitSet ==
    /\ Step("packet", MaxOps)
    /\ \E f \in HitFields, i \in LaneArgs(width) : \E v \in ArgsOf(f) :
          LET r == SoAHitSet(hit, f, i, v)
          IN  /\ hit' = r.rec
              /\ last' = Call("hit_set", f, i, v, 0, r.panic, {})
    /\ Only({"hit"})

PktHitGet ==
    /\ Step("packet", MaxOps)
    /\ \E f \in HitFields, i \in LaneArgs(width) :
          last' = IF i \in DOMAIN HitArray(hit, f)
                  THEN Call("hit_get", f, i, 0, SoAHitGet(hit, f, i), FALSE, {})
                  ELSE Call("hit_get", f, i, 0, 0, TRUE, {})
    /\ Only({})

PktAnyHit ==
    /\ Step("packet", MaxOps)
    /\ last' = Call("any_hit", "", 0, 0, any_hit(hit, width), FALSE, {})
    /\ Only({})

PktIterValidity ==
    /\ Step("packet", MaxOps)
    /\ last' = Call("iter_validity", "", 0, 0, iter_validity(hit, width), FALSE, {})
    /\ Only({})

PktIterHits ==
    /\ Step("packet", MaxOps)
    /\ last' = Call("iter_hits", "", 0, 0, iter_hits(hit, width), FALSE, {})
    /\ Only({})

NextPacket ==
    \/ PktNew \/ PktSegment \/ PktEmpty \/ PktHitNew \/ PktRayHit4New
    \/ PktRaySet \/ PktRayGet \/ PktHitSet \/ PktHitGet
    \/ PktAnyHit \/ PktIterValidity \/ PktIterHits

SpecPacket == InitPacket /\ [][NextPacket]_vars

---------------------------------------------------------------------------
(* Calls on runtime views.  The views are derived from the RayHitN the     *)
(* engine passed in; debug_assert! is active (debug build).                *)


ViewRayN ==
    /\ Step("view", MaxOps)
    /\ last' = Call("ray_n", "", 0, 0, ray_n(rayhitn), FALSE, {})
    /\ Only({})

ViewHitN ==
    /\ Step("view", MaxOps)
    /\ last' = Call("hit_n", "", 0, 0, hit_n(rayhitn), FALSE, {})
    /\ Only({})

ViewRaySet ==
    /\ Step("view", MaxOps)
    /\ \E f \in RayFields, i \in LaneArgs(width) : \E v \in ArgsOf(f) :
          LET self == ray_n(rayhitn)
              at == RayNSetAt(self, f, i)
          IN  IF DebugAssert(self, i)
              THEN /\ mem' = StoreAt(mem, at, f, v)
                   /\ last' = Call("rayn_set", f, i, v, 0, FALSE, Places(at))
              ELSE /\ mem' = mem
                   /\ last' = Call("rayn_set", f, i, v, 0, TRUE, {})
    /\ Only({"mem"})

ViewRayGet ==
    /\ Step("view", MaxOps)
    /\ \E f \in RayFields, i \in LaneArgs(width) :
          LET self == ray_n(rayhitn)
              at == RayNGetAt(self, f, i)
          IN  last' = IF DebugAssert(self, i)
                      THEN Call("rayn_get", f, i, 0, Load(mem, at, f), FALSE, Places(at))
                      ELSE Call("rayn_get", f, i, 0, 0, TRUE, {})
    /\ Only({})

ViewHitSet ==
    /\ Step("view", MaxOps)
    /\ \E f \in HitFields, i \in LaneArgs(width) : \E v \in ArgsOf(f) :
          LET self == hit_n(rayhitn)
              at == HitNSetAt(self, f, i)
          IN  IF DebugAssert(self, i)
              THEN /\ mem' = StoreAt(mem, at, f, v)
                   /\ last' = Call("hitn_set", f, i, v, 0, FALSE, Places(at))
              ELSE /\ mem' = mem
                   /\ last' = Call("hitn_set", f, i, v, 0, TRUE, {})
    /\ Only({"mem"})

ViewHitGet ==
    /\ Step("view", MaxOps)
    /\ \E f \in HitFields, i \in LaneArgs(width) :
          LET self == hit_n(rayhitn)
              at == HitNGetAt(self, f, i)
          IN  last' = IF DebugAssert(self, i)
                      THEN Call("hitn_get", f, i, 0, Load(mem, at, f), FALSE,
                                \* u and v are read together, by uv()
                                IF f \in {"u", "v"}
                                THEN Places(HitNGetAt(self, "u", i))
                                         \cup Places(HitNGetAt(self, "v", i))
                                ELSE Places(at))
                      ELSE Call("hitn_get", f, i, 0, 0, TRUE, {})
    /\ Only({})

ViewHitPoint ==
    /\ Step("view", MaxOps)
    /\ \E i \in LaneArgs(width) :
          LET self == ray_n(rayhitn)
          IN  last' = IF DebugAssert(self, i)
                      THEN Call("hit_point", "", i, 0, RayN_hit_point(self, mem, i), FALSE,
                                Places(RayNGetAt(self, "org", i))
                                    \cup Places(RayNGetAt(self, "dir", i))
                                    \cup Places(RayNGetAt(self, "tfar", i)))
                      ELSE Call("hit_point", "", i, 0, 0, TRUE, {})
    /\ Only({})

NextView ==
    \/ ViewRayN \/ ViewHitN
    \/ ViewRaySet \/ ViewRayGet \/ ViewHitSet \/ ViewHitGet
    \/ ViewHitPoint

SpecView == InitView /\ [][NextView]_vars

---------------------------------------------------------------------------
(* Calls on scalar records and extension wrappers.                         *)


\* as_ray / as_ray_hit / as_context and the _mut variants.
AsBase ==
    /\ Step("scalar", MaxScalarOps)
    /\ \E tr \in TraitsOf(obj.ty), mut \in BOOLEAN :
          last' = Call(IF mut THEN "as_base_mut" ELSE "as_base", tr, 0, 0,
                       IF mut THEN as_base_mut(tr, obj.ty, obj.v)
                       ELSE as_base(tr, obj.ty, obj.v),
                       FALSE, {})
    /\ Only({})

\* as_ray_ptr / as_ray_hit_ptr / as_context_ptr and the _mut variants.
AsBasePtr ==
    /\ Step("scalar", MaxScalarOps)
    /\ \E tr \in TraitsOf(obj.ty), mut \in BOOLEAN :
          last' = Call(IF mut THEN "as_base_mut_ptr" ELSE "as_base_ptr", tr, 0, 0,
                       IF mut THEN as_base_mut_ptr(tr, obj) ELSE as_base_ptr(tr, obj),
                       FALSE, {})
    /\ Only({})

\* as_ext / as_extended and the _mut variants.
AsExt ==
    /\ Step("scalar", MaxScalarOps)
    /\ \E tr \in TraitsOf(obj.ty), mut \in BOOLEAN :
          last' = Call(IF mut THEN "as_ext_mut" ELSE "as_ext", tr, 0, 0,
                       IF mut THEN as_ext_mut(tr, obj.ty, obj.v)
                       ELSE as_ext(tr, obj.ty, obj.v),
                       FALSE, {})
    /\ Only({})

\* *x.as_ray_mut() = ... : a store through the mutable base reference.
WriteBase ==
    /\ Step("scalar", MaxScalarOps)
    /\ \E tr \in TraitsOf(obj.ty), x \in F32Args :
          LET p == as_base_mut(tr, obj.ty, obj.v)
              b == PokeBase(tr, Deref(obj.v, p), x)
          IN  /\ obj' = [obj EXCEPT !.v = Assign(obj.v, p, b)]
              /\ written' = [written EXCEPT ![tr].base = b]
              /\ last' = Call("write_base", tr, 0, x, 0, FALSE, {})
    /\ Only({"obj", "written"})

\* if let Some(e) = x.as_ext_mut() { *e = ... }
WriteExt ==
    /\ Step("scalar", MaxScalarOps)
    /\ \E tr \in TraitsOf(obj.ty), e \in ExtArgs :
          LET o == as_ext_mut(tr, obj.ty, obj.v)
          IN  /\ o # None
              /\ LET x == PokeExt(tr, obj.ty, Deref(obj.v, o[1]), e)
                 IN  /\ obj' = [obj EXCEPT !.v = Assign(obj.v, o[1], x)]
                     /\ written' = [written EXCEPT ![tr].ext = Some(x)]
              /\ last' = Call("write_ext", tr, 0, e, 0, FALSE, {})
    /\ Only({"obj", "written"})

\* Ray::new / Ray::segment: the caller replaces its scalar ray.
RayNew ==
    /\ Step("scalar", MaxScalarOps)
    /\ obj.ty = "Ray"
    /\ \E k \in Seeds :
          /\ obj' = [obj EXCEPT !.v = Ray_new(Origins(1, k)[0], Dirs(1, k)[0])]
          /\ last' = Call("Ray::new", "", 0, k, 0, FALSE, {})
    /\ written' = [written EXCEPT !["AsRay"].base = obj'.v]
    /\ Only({"obj", "written"})

RaySegment ==
    /\ Step("scalar", MaxScalarOps)
    /\ obj.ty = "Ray"
    /\ \E k \in Seeds :
          /\ obj' = [obj EXCEPT !.v = Ray_segment(Origins(1, k)[0], Dirs(1, k)[0],
                                                  TNears(1, k)[0], TFars(1, k)[0])]
          /\ last' = Call("Ray::segment", "", 0, k, 0, FALSE, {})
    /\ written' = [written EXCEPT !["AsRay"].base = obj'.v]
    /\ Only({"obj", "written"})

\* RayHit::new(ray): the caller replaces its scalar ray/hit record.
RayHitNew ==
    /\ Step("scalar", MaxScalarOps)
    /\ obj.ty = "RayHit"
    /\ \E k \in Seeds :
          /\ obj' = [obj EXCEPT !.v = RayHit_new(Ray_segment(Origins(1, k)[0], Dirs(1, k)[0],
                                                             TNears(1, k)[0], TFars(1, k)[0]))]
          /\ last' = Call("RayHit::new", "", 0, k, 0, FALSE, {})
    /\ written' = [tr \in TraitsOf(obj.ty) |->
                      [base |-> BaseOf(tr, obj'), ext |-> ExtOf(tr, obj')]]
    /\ Only({"obj", "written"})

RayHitIsValid ==
    /\ Step("scalar", MaxScalarOps)
    /\ obj.ty = "RayHit"
    /\ last' = Call("is_valid", "", 0, 0, RayHit_is_valid(obj.v), FALSE, {})
    /\ Only({})

RayHitHitPoint ==
    /\ Step("scalar", MaxScalarOps)
    /\ obj.ty = "RayHit"
    /\ last' = Call("hit_point", "", 0, 0, RayHit_hit_point(obj.v), FALSE, {})
    /\ Only({})

\* IntersectContext::{new, coherent, incoherent} and the same three of
\* IntersectContextExt: the caller replaces its context.
CtxNew ==
    /\ Step("scalar", MaxScalarOps)
    /\ obj.ty \in {"IntersectContext", "IntersectContextExt"}
    /\ \E ctor \in {"new", "coherent", "incoherent"}, fl \in {"COHERENT", "INCOHERENT"}, e \in ExtArgs :
          LET c == CASE obj.ty = "IntersectContext" /\ ctor = "new" -> IntersectContext_new(fl)
                     [] obj.ty = "IntersectContext" /\ ctor = "coherent" -> IntersectContext_coherent
                     [] obj.ty = "IntersectContext" /\ ctor = "incoherent" -> IntersectContext_incoherent
                     [] obj.ty = "IntersectContextExt" /\ ctor = "new" -> IntersectContextExt_new(fl, e)
                     [] obj.ty = "IntersectContextExt" /\ ctor = "coherent" -> IntersectContextExt_coherent(e)
                     [] obj.ty = "IntersectContextExt" /\ ctor = "incoherent" -> IntersectContextExt_incoherent(e)
          IN  /\ obj' = [obj EXCEPT !.v = c]
              /\ last' = Call(obj.ty, ctor, 0, <<fl, e>>, c, FALSE, {})
              /\ written' = [tr \in TraitsOf(obj.ty) |->
                                [base |-> BaseOf(tr, obj'),
                                 ext |-> IF obj.ty \in Wrappers THEN Some(e) ELSE ExtOf(tr, obj')]]
    /\ Only({"obj", "written"})

NextScalar ==
    \/ CtxNew \/ RayHitNew \/ RayHitIsValid \/ RayHitHitPoint
    \/ AsBase \/ AsBasePtr \/ AsExt \/ WriteBase \/ WriteExt \/ RayNew \/ RaySegment

SpecScalar == InitScalar /\ [][NextScalar]_vars

---------------------------------------------------------------------------

---------------------------------------------------------------------------
(* Iteration over the lanes of a packet.                                   *)

\* Iterators a caller creates before the model stops counting them.
MaxIters == 2

\* iter() / iter_mut() / RayHit4::iter(): a new iterator replaces the one
\* the caller held, however far that one was advanced.
IterNew ==
    /\ kind = "iter"
    /\ it.gen < MaxIters
    /\ \E of \in {"ray", "ray_mut", "hit", "rayhit4"} :
          /\ of = "rayhit4" => width = 4
          /\ it' = [of |-> of,
                    st |-> CASE of = "ray" -> ray_iter(width)
                             [] of = "ray_mut" -> ray_iter_mut(width)
                             [] of = "hit" -> hit_iter(width)
                             [] of = "rayhit4" -> RayHit4_iter,
                    out |-> <<>>, done |-> FALSE, gen |-> it.gen + 1]
          /\ last' = Call("iter", of, 0, 0, 0, FALSE, {})
    /\ UNCHANGED <<kind, width, ray, hit, mem, rayhitn, obj, written, thr, ops>>

\* next() on the iterator held.
IterNext ==
    /\ kind = "iter"
    /\ it.of # "none"
    /\ LET r == IF it.of = "rayhit4" THEN Zip_next(it.st) ELSE Cursor_next(it.st)
       IN  /\ it' = [it EXCEPT !.st = r.it,
                               !.out = IF r.item = None THEN @ ELSE Append(@, r.item[1]),
                               !.done = (r.item = None)]
           /\ last' = Call("next", it.of, 0, 0, r.item, FALSE, {})
    /\ UNCHANGED <<kind, width, ray, hit, mem, rayhitn, obj, written, thr, ops>>

SpecIter == InitIter /\ [][IterNew \/ IterNext]_vars

---------------------------------------------------------------------------
(* Two threads, each calling accessors on the views of its own record.     *)

\* One accessor call c on the views derived from rhn, on buffer m.
Exec(c, rhn, m) ==
    LET self == IF c.view = "ray" THEN ray_n(rhn) ELSE hit_n(rhn)
        at == CASE c.view = "ray" /\ c.op = "set" -> RayNSetAt(self, c.field, c.lane)
                [] c.view = "ray" /\ c.op = "get" -> RayNGetAt(self, c.field, c.lane)
                [] c.view = "hit" /\ c.op = "set" -> HitNSetAt(self, c.field, c.lane)
                [] c.view = "hit" /\ c.op = "get" -> HitNGetAt(self, c.field, c.lane)
    IN  IF ~DebugAssert(self, c.lane) THEN [mem |-> m, ret |-> "panic"]
        ELSE IF c.op = "set" THEN [mem |-> StoreAt(m, at, c.field, c.val), ret |-> "unit"]
        ELSE [mem |-> m, ret |-> Load(m, at, c.field)]

\* The first n calls of a program, made with no other thread running.
RECURSIVE RunAlone(_, _, _, _)
RunAlone(prog, rhn, m, n) ==
    IF n = 0 THEN [mem |-> m, rets |-> <<>>]
    ELSE LET before == RunAlone(prog, rhn, m, n - 1)
             r == Exec(prog[n], rhn, before.mem)
         IN  [mem |-> r.mem, rets |-> Append(before.rets, r.ret)]

\* A thread makes its next call; the scheduler picks the thread.
ThreadStep ==
    /\ kind = "threads"
    /\ \E t \in {1, 2} :
          LET me == thr.t[t]
          IN  /\ me.pc < Len(me.prog)
              /\ LET c == me.prog[me.pc + 1]
                     r == Exec(c, me.rhn, mem)
                 IN  /\ mem' = r.mem
                     /\ thr' = [thr EXCEPT !.t[t].pc = me.pc + 1,
                                           !.t[t].rets = Append(me.rets, r.ret)]
                     /\ last' = Call(c.op, c.field, c.lane, c.val, r.ret, FALSE, {t})
    /\ UNCHANGED <<kind, width, ray, hit, rayhitn, obj, written, it, ops>>

SpecThreads == InitThreads /\ [][ThreadStep]_vars

Next == NextPacket \/ NextView \/ NextScalar \/ IterNew \/ IterNext \/ ThreadStep

Spec == Init /\ [][Next]_vars

\* Scalar records and runtime views side by side.
SpecPoints == (InitView \/ InitScalar) /\ [][NextView \/ NextScalar]_vars

\* Packets and scalar records together (the records built by constructors).

SpecRecords == (InitPacket \/ InitScalar) /\ [][NextPacket \/ NextScalar]_vars

\* Packets and runtime views together (the per-lane accessors).
SpecLanes == (InitPacket \/ InitView) /\ [][NextPacket \/ NextView]_vars

---------------------------------------------------------------------------
(* Claims *)

\* C1: the record built by new(origins, dirs), at every width (Ray::new for
\* width 1, Ray4/8/16::new otherwise), has in every lane i the origin and
\* direction passed for lane i, tnear = 0, tfar = +infinity, time = 0,
\* mask = u32::MAX, id = 0 and flags = 0.
C1_NewDefaults ==
    /\ (kind = "packet" /\ last.op = "new") =>
          \A i \in Lanes(width) :
              /\ org(ray, i) = Origins(width, last.val)[i]
              /\ dir(ray, i) = Dirs(width, last.val)[i]
              /\ tnear(ray, i) = 0
              /\ tfar(ray, i) = Inf
              /\ time(ray, i) = 0
              /\ mask(ray, i) = U32Max
              /\ id(ray, i) = 0
              /\ flags(ray, i) = 0
    /\ (kind = "scalar" /\ last.op = "Ray::new") =>
          /\ Ray_org(obj.v) = Origins(1, last.val)[0]
          /\ Ray_dir(obj.v) = Dirs(1, last.val)[0]
          /\ obj.v.tnear = 0
          /\ obj.v.tfar = Inf
          /\ obj.v.time = 0
          /\ obj.v.mask = U32Max
          /\ obj.v.id = 0
          /\ obj.v.flags = 0

C1_Witness ==
    /\ kind = "packet" /\ last.op = "new" /\ width = 16
    /\ org(ray, 15) = Origins(16, 1)[15]
    /\ tfar(ray, 15) = Inf

\* C2: setter/getter round trip.  After set_X(i, v) on a fixed-width packet
\* (Ray4/8/16, Hit4/8/16) or on a runtime view (RayN, HitN of width 1, 4, 8,
\* 16) with i < width, the getter X(i) returns v, for every field X.
C2_RoundTrip ==
    /\ (last.op = "ray_set" /\ ~last.panic) =>
          SoARayGet(ray, last.field, last.lane) = last.val
    /\ (last.op = "hit_set" /\ ~last.panic) =>
          SoAHitGet(hit, last.field, last.lane) = last.val
    /\ (last.op = "rayn_set" /\ ~last.panic) =>
          Load(mem, RayNGetAt(ray_n(rayhitn), last.field, last.lane), last.field)
             = last.val
    /\ (last.op = "hitn_set" /\ ~last.panic) =>
          Load(mem, HitNGetAt(hit_n(rayhitn), last.field, last.lane), last.field)
             = last.val

C2_Witness ==
    /\ last.op = "rayn_set" /\ ~last.panic
    /\ last.field = "tfar" /\ last.lane = 15 /\ width = 16 /\ last.val = 2
    /\ Load(mem, RayNGetAt(ray_n(rayhitn), "tfar", 15), "tfar") = 2

\* C3: every RayN getter and setter for lane i of a view of width W touches
\* exactly the elements field_index * W + i of the view, in the order
\* org_x=0, org_y=1, org_z=2, tnear=3, dir_x=4, dir_y=5, dir_z=6, time=7,
\* tfar=8, mask=9, id=10, flags=11; getter and setter use the same index.
C3_RayNIndex ==
    LET Col(f) == CASE f = "org" -> <<0, 1, 2>>
                    [] f = "tnear" -> <<3>>
                    [] f = "dir" -> <<4, 5, 6>>
                    [] f = "time" -> <<7>>
                    [] f = "tfar" -> <<8>>
                    [] f = "mask" -> <<9>>
                    [] f = "id" -> <<10>>
                    [] f = "flags" -> <<11>>
        self == ray_n(rayhitn)
        At(f, i) == [k \in DOMAIN Col(f) |-> self.ptr + Col(f)[k] * width + i]
    IN  /\ (last.op \in {"rayn_get", "rayn_set"} /\ ~last.panic) =>
              last.touched = {At(last.field, last.lane)[k] : k \in DOMAIN Col(last.field)}
        /\ kind = "view" =>
              \A f \in RayFields, i \in Lanes(width) :
                  /\ RayNGetAt(self, f, i) = At(f, i)
                  /\ RayNSetAt(self, f, i) = At(f, i)

C3_Witness ==
    /\ last.op = "rayn_get" /\ ~last.panic
    /\ last.field = "tfar" /\ last.lane = 3 /\ width = 4 /\ rayhitn.ptr = 5
    /\ last.touched = {5 + 8 * 4 + 3}

\* C4: for N in {4, 8, 16}, a RayN of width N placed over the memory of a
\* fixed-width ray packet returns, for every field and lane, what the
\* packet's own accessor returns; the same holds for HitN over a hit packet.
C4_ViewAgreesWithPacket ==
    (kind = "view" /\ width \in PacketWidths) =>
        LET rn == ray_n(rayhitn)
            hn == hit_n(rayhitn)
            pr == RTCRayAt(mem, rn.ptr, width)
            ph == RTCHitAt(mem, hn.ptr, width)
        IN  /\ \A f \in RayFields, i \in Lanes(width) :
                  Load(mem, RayNGetAt(rn, f, i), f) = SoARayGet(pr, f, i)
            /\ \A f \in HitFields, i \in Lanes(width) :
                  Load(mem, HitNGetAt(hn, f, i), f) = SoAHitGet(ph, f, i)

C4_Witness ==
    /\ kind = "view" /\ width = 16
    /\ last.op = "hitn_set" /\ last.field = "geom_id" /\ last.lane = 9 /\ last.val = 0
    /\ geom_id(RTCHitAt(mem, hit_n(rayhitn).ptr, 16), 9) = 0
    /\ Load(mem, HitNGetAt(hit_n(rayhitn), "geom_id", 9), "geom_id") = 0

\* C5: for a RayHitN of width W at base element B, ray_n() returns a RayN
\* with base B and width W, and hit_n() returns a HitN with base B + 12 * W
\* and width W, for every W in {1, 4, 8, 16}.
C5_SubViews ==
    /\ last.op = "ray_n" =>
          /\ last.ret.ptr = rayhitn.ptr
          /\ last.ret.len = width
    /\ last.op = "hit_n" =>
          /\ last.ret.ptr = rayhitn.ptr + 12 * width
          /\ last.ret.len = width
    /\ kind = "view" => rayhitn.len = width /\ width \in {1, 4, 8, 16}

C5_Witness ==
    /\ last.op = "hit_n" /\ width = 8 /\ rayhitn.ptr = 5
    /\ last.ret = [ptr |-> 101, len |-> 8]

\* C6: iter_hits() on a hit packet of width N (Hit4, Hit8, Hit16) yields
\* exactly the lanes i in 0..N with geomID[i] != INVALID_ID, each once, in
\* ascending lane order, for every assignment of geomID values.
C6_IterHitsExact ==
    kind = "packet" =>
        LET Valid(i) == hit.geomID[i] # INVALID_ID
        IN  iter_hits(hit, width) = SelectSeq([k \in 1 .. width |-> k - 1], Valid)

\* C7: any_hit() on a hit packet of width N is true iff some lane i < N has
\* geomID[i] != INVALID_ID, and iter_validity() yields exactly N booleans
\* whose i-th element is geomID[i] != INVALID_ID.
C7_AnyHitValidity ==
    /\ kind = "packet" =>
          /\ any_hit(hit, width) <=> (\E i \in Lanes(width) : hit.geomID[i] # INVALID_ID)
          /\ Len(iter_validity(hit, width)) = width
          /\ \A i \in Lanes(width) :
                iter_validity(hit, width)[i + 1] <=> (hit.geomID[i] # INVALID_ID)
    /\ last.op = "any_hit" =>
          (last.ret <=> (\E i \in Lanes(width) : hit.geomID[i] # INVALID_ID))
    /\ last.op = "iter_validity" =>
          last.ret = [k \in 1 .. width |-> hit.geomID[k - 1] # INVALID_ID]

C7_Witness ==
    /\ kind = "packet" /\ width = 16
    /\ last.op = "hit_set" /\ last.field = "geom_id" /\ last.lane = 12 /\ last.val = 0
    /\ any_hit(hit, 16)
    /\ iter_validity(hit, 16)[13]
    /\ ~iter_validity(hit, 16)[12]

\* C8 as stated: for every implementer of AsRay, AsRayHit and
\* AsIntersectContext the extension accessor returns None when the value is
\* an unextended base record (Ray, RayHit, IntersectContext) and
\* Some(reference to the ext field) when it is an Ext<E> wrapper; the
\* immutable and the mutable accessor agree on None versus Some.
C8_Original ==
    /\ last.op \in {"as_ext", "as_ext_mut"} =>
          /\ obj.ty \in {"Ray", "RayHit", "IntersectContext"} => last.ret = None
          /\ obj.ty \in Wrappers =>
                last.ret = Some(Field("ext"))
    /\ kind = "scalar" =>
          \A tr \in TraitsOf(obj.ty) :
              (as_ext(tr, obj.ty, obj.v) = None) <=> (as_ext_mut(tr, obj.ty, obj.v) = None)

\* C8 as amended: the accessor returns None when the implementer is the
\* trait's own base record (Ray as AsRay, RayHit as AsRayHit,
\* IntersectContext as AsIntersectContext), Some(reference to the hit field)
\* for RayHit as AsRay, and Some(reference to the ext field) for an Ext<E>
\* wrapper; the immutable and the mutable accessor agree.
C8_ExtensionPresence ==
    /\ last.op \in {"as_ext", "as_ext_mut"} =>
          LET im == <<last.field, obj.ty>>
          IN  /\ im \in {<<"AsRay", "Ray">>, <<"AsRayHit", "RayHit">>,
                         <<"AsIntersectContext", "IntersectContext">>} => last.ret = None
              /\ im = <<"AsRay", "RayHit">> => last.ret = Some(Field("hit"))
              /\ obj.ty \in Wrappers =>
                    last.ret = Some(Field("ext"))
    /\ kind = "scalar" =>
          \A tr \in TraitsOf(obj.ty) :
              as_ext(tr, obj.ty, obj.v) = as_ext_mut(tr, obj.ty, obj.v)

C8_Witness ==
    /\ last.op = "as_ext" /\ last.field = "AsRay" /\ obj.ty = "RayHit"
    /\ last.ret = Some(Field("hit"))
    /\ Deref(obj.v, last.ret[1]) = obj.v.hit

\* C9: for a Ray wrapped in RayExt<E> with ext = e, after any sequence of
\* mutations of the base ray through as_ray_mut (setting tfar), as_ext
\* returns Some(e) with e the payload the caller last stored, unchanged.
C9_ExtRoundTrip ==
    (kind = "scalar" /\ obj.ty = "RayExt") =>
        /\ as_ext("AsRay", "RayExt", obj.v) # None
        /\ ExtOf("AsRay", obj) = written["AsRay"].ext
        /\ last.op = "write_base" => BaseOf("AsRay", obj).tfar = last.val

C9_Witness ==
    /\ kind = "scalar" /\ obj.ty = "RayExt" /\ ops >= 2
    /\ last.op = "write_base" /\ last.val = 2
    /\ Deref(obj.v, as_base("AsRay", "RayExt", obj.v)).tfar = 2
    /\ written["AsRay"].ext = Some(<<7, 9>>)
    /\ ExtOf("AsRay", obj) = Some(<<7, 9>>)

\* C10: for IntersectContextExt<E>, as_context / as_mut_context return the
\* ctx field and as_extended / as_mut_extended return Some(ext field); writes
\* through as_mut_context leave the value read through as_extended unchanged
\* and writes through as_mut_extended leave the value read through
\* as_context unchanged.
C10_ContextExt ==
    (kind = "scalar" /\ obj.ty = "IntersectContextExt") =>
        LET tr == "AsIntersectContext"
        IN  /\ as_base(tr, obj.ty, obj.v) = Field("ctx")
            /\ as_base_mut(tr, obj.ty, obj.v) = Field("ctx")
            /\ as_ext(tr, obj.ty, obj.v) = Some(Field("ext"))
            /\ as_ext_mut(tr, obj.ty, obj.v) = Some(Field("ext"))
            /\ BaseOf(tr, obj) = obj.v.ctx
            /\ ExtOf(tr, obj) = Some(obj.v.ext)
            /\ BaseOf(tr, obj) = written[tr].base
            /\ ExtOf(tr, obj) = written[tr].ext

C10_Witness ==
    /\ kind = "scalar" /\ obj.ty = "IntersectContextExt" /\ ops = 3
    /\ last.op = "write_ext" /\ last.val = <<1, 2>>
    /\ obj.v.ctx.instID = <<2>>
    /\ written["AsIntersectContext"].base.instID = <<2>>
    /\ ExtOf("AsIntersectContext", obj) = Some(<<1, 2>>)

\* C11: for every extension wrapper and for the unextended base, the raw
\* pointer returned by the base-pointer accessor (as_ray_ptr,
\* as_ray_hit_ptr, as_context_ptr and the mutable variants) equals the
\* address of the value itself: the base record sits at offset 0.
C11_BaseAtOffsetZero ==
    last.op \in {"as_base_ptr", "as_base_mut_ptr"} => last.ret = 0

\* C12: RayHit::is_valid() is false when hit.geomID = INVALID_ID and true
\* for every other geomID, whatever the other fields hold; Hit::default()
\* has geomID = INVALID_ID, so RayHit::new(ray).is_valid() is false.
C12_IsValid ==
    /\ Hit_default.geomID = INVALID_ID
    /\ (kind = "scalar" /\ obj.ty = "RayHit") =>
          /\ last.op = "is_valid" => (last.ret <=> obj.v.hit.geomID # INVALID_ID)
          /\ last.op = "RayHit::new" => ~RayHit_is_valid(obj.v)
          /\ \A g \in {1, 7} :
                ExtOf("AsRay", obj) = Some([Hit_default EXCEPT !.geomID = g])
                    => RayHit_is_valid(obj.v)

C12_Witness ==
    /\ kind = "scalar" /\ obj.ty = "RayHit"
    /\ last.op = "is_valid" /\ last.ret = TRUE
    /\ obj.v.hit.geomID = 7 /\ obj.v.hit.primID = INVALID_ID
    /\ obj.v.ray.tfar \in F32Args

\* C13: a freshly constructed hit packet (Hit4/8/16::new() or default(),
\* and the hit part of RayHit4::new(Ray4::empty())) has primID, geomID and
\* instID equal to INVALID_ID in every lane, so any_hit() is false,
\* iter_validity() yields only false and iter_hits() yields no item.
C13_FreshHitPacket ==
    (kind = "packet" /\ (ops = 0 \/ last.op \in {"hit_new", "RayHit4::new"})) =>
        /\ \A i \in Lanes(width) :
              /\ prim_id(hit, i) = INVALID_ID
              /\ geom_id(hit, i) = INVALID_ID
              /\ inst_id(hit, i) = INVALID_ID
        /\ ~any_hit(hit, width)
        /\ Len(iter_validity(hit, width)) = width
        /\ \A k \in 1 .. width : ~iter_validity(hit, width)[k]
        /\ iter_hits(hit, width) = <<>>

C13_Witness ==
    /\ kind = "packet" /\ width = 4 /\ last.op = "RayHit4::new"
    /\ ray = empty(4)
    /\ hit = Hit_new(4)
    /\ ~any_hit(hit, 4) /\ iter_hits(hit, 4) = <<>>

\* C14: every accessor of the runtime views RayN and HitN (getters, setters
\* and RayN::hit_point) called with lane index i >= len fails the debug
\* assertion before any element of the buffer is read or written, so the
\* buffer is unchanged by the failing call.
C14_ViewBoundsAssert ==
    /\ [](kind = "view" /\ last.op \in {"rayn_set", "rayn_get", "hitn_set", "hitn_get", "hit_point"} =>
            /\ last.lane >= rayhitn.len <=> last.panic
            /\ last.panic => last.touched = {}
            /\ ~last.panic => last.touched # {})
    /\ [][kind = "view" /\ last'.op \in {"rayn_set", "rayn_get", "hitn_set", "hitn_get", "hit_point"}
            /\ last'.lane >= rayhitn.len
            => mem' = mem]_vars

C14_Witness ==
    /\ kind = "view" /\ width = 4 /\ rayhitn.len = 4
    /\ last.op = "hitn_set" /\ last.field = "inst_id" /\ last.lane = 4
    /\ last.panic /\ last.touched = {}

\* C15: every per-lane getter and setter of a fixed-width packet of width N
\* (Ray4/8/16, Hit4/8/16) called with lane index i >= N fails instead of
\* returning a value, and a failing setter leaves every field of every lane
\* of the packet unchanged (set_org, set_dir and set_normal included).
C15_PacketBounds ==
    /\ [](kind = "packet" /\ last.op \in {"ray_set", "ray_get", "hit_set", "hit_get"} =>
            /\ last.lane >= width <=> last.panic
            /\ last.panic => last.ret = 0)
    /\ [][kind = "packet" /\ last'.op \in {"ray_set", "ray_get", "hit_set", "hit_get"}
            /\ last'.lane >= width
            => ray' = ray /\ hit' = hit]_vars

C15_Witness ==
    /\ kind = "packet" /\ width = 8
    /\ last.op = "ray_set" /\ last.field = "org" /\ last.lane = 8
    /\ last.panic

\* C16: hit_point is org + dir * tfar component by component in every
\* representation: RayHit::hit_point() on the scalar record and
\* RayN::hit_point(i) on a runtime view return the same three values when
\* the stored org, dir and tfar are identical (org (0,0,0), dir (1,0,0),
\* tfar 2 gives (2,0,0)), and neither call modifies a stored field.
LaneAsRayHit(self, m, i) ==
    RayHit_new(Ray_segment(Load(m, RayNGetAt(self, "org", i), "org"),
                           Load(m, RayNGetAt(self, "dir", i), "dir"),
                           Load(m, RayNGetAt(self, "tnear", i), "tnear"),
                           Load(m, RayNGetAt(self, "tfar", i), "tfar")))

C16_HitPoint ==
    /\ [](/\ RayHit_hit_point(RayHit_new(Ray_segment(<<0, 0, 0>>, <<1, 0, 0>>, 0, 2)))
               = <<2, 0, 0>>
          /\ (kind = "scalar" /\ last.op = "hit_point") =>
                last.ret = [k \in 1 .. 3 |->
                              Ray_org(obj.v.ray)[k] + Ray_dir(obj.v.ray)[k] * obj.v.ray.tfar]
          /\ kind = "view" =>
                \A i \in {0, last.lane} \cap Lanes(rayhitn.len) :
                    RayN_hit_point(ray_n(rayhitn), mem, i)
                        = RayHit_hit_point(LaneAsRayHit(ray_n(rayhitn), mem, i))
          /\ (kind = "view" /\ last.op = "hit_point" /\ ~last.panic) =>
                last.ret = RayHit_hit_point(LaneAsRayHit(ray_n(rayhitn), mem, last.lane)))
    /\ [][last'.op = "hit_point" => mem' = mem /\ obj' = obj]_vars

C16_Witness ==
    /\ kind = "view" /\ width = 4 /\ last.op = "hit_point" /\ last.lane = 1
    /\ ~last.panic
    /\ last.ret # Load(mem, RayNGetAt(ray_n(rayhitn), "org", 1), "org")
    /\ last.ret = RayHit_hit_point(LaneAsRayHit(ray_n(rayhitn), mem, 1))

\* C17: RayHit4::iter() yields exactly 4 items; the k-th item (k = 0..3)
\* pairs ray lane k with hit lane k of the same RayHit4.
C17_RayHit4Iter ==
    (kind = "iter" /\ it.of = "rayhit4") =>
        /\ Len(it.out) <= 4
        /\ \A k \in 1 .. Len(it.out) : it.out[k] = <<k - 1, k - 1>>
        /\ it.done => Len(it.out) = 4
        /\ last.op = "next" => (last.ret = None <=> it.done)

C17_Witness ==
    /\ kind = "iter" /\ width = 4 /\ it.of = "rayhit4" /\ it.done
    /\ it.out = <<<<0, 0>>, <<1, 1>>, <<2, 2>>, <<3, 3>>>>
    /\ last.op = "next" /\ last.ret = None

\* C18: iter() and iter_mut() on a fixed-width packet of width N yield
\* exactly N items, one per lane, in lane order 0..N-1, and then end; each
\* call to iter() starts again at lane 0 however far an earlier iterator was
\* advanced.
C18_LaneIteration ==
    (kind = "iter" /\ it.of \in {"ray", "ray_mut", "hit"}) =>
        /\ Len(it.out) <= width
        /\ \A k \in 1 .. Len(it.out) : it.out[k] = k - 1
        /\ it.done => Len(it.out) = width
        /\ last.op = "next" => (last.ret = None <=> it.done)
        /\ last.op = "next" /\ last.ret # None => last.ret = Some(Len(it.out) - 1)
        /\ last.op = "iter" => it.st.cur = 0 /\ it.out = <<>> /\ ~it.done

C18_Witness ==
    /\ kind = "iter" /\ width = 8 /\ it.of = "ray_mut" /\ it.gen = 2
    /\ it.done /\ it.out = <<0, 1, 2, 3, 4, 5, 6, 7>>
    /\ last.op = "next" /\ last.ret = None

\* C19 as stated: empty() returns a ray packet in which all lanes are
\* inactive, a lane being inactive when tfar < tnear, for every width N in
\* {4, 8, 16}.
C19_Original ==
    (kind = "packet" /\ last.op = "empty") =>
        \A i \in Lanes(width) : tfar(ray, i) < tnear(ray, i)

\* C19 as amended: empty() returns a ray packet in which every lane has
\* origin and direction (0, 0, 0), tnear = 0 and tfar = +infinity, so that
\* no lane is inactive (no lane has tfar < tnear), for every width N in
\* {4, 8, 16}.
C19_EmptyLanes ==
    (kind = "packet" /\ last.op = "empty") =>
        \A i \in Lanes(width) :
            /\ org(ray, i) = <<0, 0, 0>> /\ dir(ray, i) = <<0, 0, 0>>
            /\ tnear(ray, i) = 0 /\ tfar(ray, i) = Inf
            /\ ~(tfar(ray, i) < tnear(ray, i))

C19_Witness ==
    /\ kind = "packet" /\ width = 16 /\ last.op = "empty"
    /\ ray = empty(16)
    /\ tnear(ray, 15) = 0 /\ tfar(ray, 15) = Inf

\* C20: segment(origins, dirs, tnears, tfars) stores tnears[i] and tfars[i]
\* verbatim in lane i without validation (also when tnears[i] < 0 or
\* tfars[i] < tnears[i]), transposes origins and dirs so that org(i) =
\* origins[i] and dir(i) = dirs[i], and sets time = 0, mask = u32::MAX,
\* id = 0, flags = 0 in every lane; for Ray::segment and Ray4/8/16::segment.
C20_SegmentVerbatim ==
    /\ (kind = "packet" /\ last.op = "segment") =>
          LET k == last.val
          IN  \A i \in Lanes(width) :
                  /\ tnear(ray, i) = TNears(width, k)[i]
                  /\ tfar(ray, i) = TFars(width, k)[i]
                  /\ org(ray, i) = Origins(width, k)[i]
                  /\ dir(ray, i) = Dirs(width, k)[i]
                  /\ time(ray, i) = 0 /\ mask(ray, i) = U32Max
                  /\ id(ray, i) = 0 /\ flags(ray, i) = 0
    /\ (kind = "scalar" /\ last.op = "Ray::segment") =>
          LET k == last.val
          IN  /\ obj.v.tnear = TNears(1, k)[0]
              /\ obj.v.tfar = TFars(1, k)[0]
              /\ Ray_org(obj.v) = Origins(1, k)[0]
              /\ Ray_dir(obj.v) = Dirs(1, k)[0]
              /\ obj.v.time = 0 /\ obj.v.mask = U32Max
              /\ obj.v.id = 0 /\ obj.v.flags = 0
    /\ \A tn \in {-1, 0, 2}, tf \in {-1, 0, 1} :
          LET r == Ray_segment(<<1, 2, 3>>, <<3, 1, 2>>, tn, tf)
          IN  r.tnear = tn /\ r.tfar = tf /\ Ray_org(r) = <<1, 2, 3>> /\ Ray_dir(r) = <<3, 1, 2>>

C20_Witness ==
    /\ kind = "packet" /\ width = 4 /\ last.op = "segment" /\ last.val = 1
    /\ tfar(ray, 3) < tnear(ray, 3)
    /\ org(ray, 3) = Origins(4, 1)[3] /\ org(ray, 3) # org(ray, 0)

\* C21: no operation reads or writes shared state.  For two threads that
\* each operate on the views of their own buffer, every interleaving of
\* their accessor calls leaves each record in the same state and returns the
\* same values as running that thread's calls alone.
C21_ThreadsIndependent ==
    kind = "threads" =>
        \A t \in {1, 2} :
            LET me == thr.t[t]
                alone == RunAlone(me.prog, me.rhn, thr.mem0, me.pc)
            IN  /\ me.rets = alone.rets
                /\ \A a \in me.rhn.ptr .. (me.rhn.ptr + 20 * me.rhn.len - 1) :
                      mem[a] = alone.mem[a]

C21_Witness ==
    /\ kind = "threads" /\ width = 4
    /\ thr.t[1].pc = 2 /\ thr.t[2].pc = 2
    /\ last.touched = {1}
    /\ thr.t[1].prog[1].field = "tfar" /\ thr.t[2].prog[1].field = "tfar"
    /\ thr.t[1].prog[1].lane = 3 /\ thr.t[2].prog[1].lane = 0
    /\ thr.t[1].prog[2].field = "inst_id" /\ thr.t[1].prog[2].lane = 3
    /\ thr.t[1].rets = <<"unit", INVALID_ID>>
    /\ mem # thr.mem0

\* C22: every HitN getter and setter for lane i of a view of width W
\* touches exactly the element field_index * W + i of the view, in the order
\* Ng_x=0, Ng_y=1, Ng_z=2, u=3, v=4, primID=5, geomID=6, instID=7; getter
\* and setter of a field use the same index.
C22_HitNIndex ==
    LET Col(f) == CASE f = "normal" -> <<0, 1, 2>>
                    [] f = "u" -> <<3>>
                    [] f = "v" -> <<4>>
                    [] f = "prim_id" -> <<5>>
                    [] f = "geom_id" -> <<6>>
                    [] f = "inst_id" -> <<7>>
        self == hit_n(rayhitn)
        At(f, i) == [k \in DOMAIN Col(f) |-> self.ptr + Col(f)[k] * width + i]
        Cells(f, i) == {At(f, i)[k] : k \in DOMAIN Col(f)}
    IN  /\ (last.op = "hitn_set" /\ ~last.panic) =>
              last.touched = Cells(last.field, last.lane)
        /\ (last.op = "hitn_get" /\ ~last.panic) =>
              last.touched = IF last.field \in {"u", "v"}
                             THEN Cells("u", last.lane) \cup Cells("v", last.lane)
                             ELSE Cells(last.field, last.lane)
        /\ kind = "view" =>
              \A f \in HitFields, i \in Lanes(width) :
                  /\ HitNGetAt(self, f, i) = At(f, i)
                  /\ HitNSetAt(self, f, i) = At(f, i)

C22_Witness ==
    /\ last.op = "hitn_set" /\ ~last.panic
    /\ last.field = "v" /\ last.lane = 7 /\ width = 8 /\ rayhitn.ptr = 5
    /\ last.touched = {5 + 12 * 8 + 4 * 8 + 7}
    /\ mem[5 + 12 * 8 + 4 * 8 + 7] = last.val

\* C23: for a RayHitN of width W, a setter called with lane i < W through
\* the view from ray_n() or hit_n() changes only the named field at lane i;
\* every other (field, lane) cell of the ray region and of the hit region
\* keeps its value.  No ray setter changes a value read through the hit
\* view and no hit setter changes a value read through the ray view.
C23_SetterFrame ==
    [][(kind = "view" /\ last'.op \in {"rayn_set", "hitn_set"} /\ ~last'.panic) =>
          LET rn == ray_n(rayhitn)
              hn == hit_n(rayhitn)
              Named(v, f, j) == last'.op = v /\ last'.field = f /\ last'.lane = j
          IN  /\ \A f \in RayFields, j \in Lanes(width) :
                    Named("rayn_set", f, j)
                        \/ Load(mem', RayNGetAt(rn, f, j), f) = Load(mem, RayNGetAt(rn, f, j), f)
              /\ \A f \in HitFields, j \in Lanes(width) :
                    Named("hitn_set", f, j)
                        \/ Load(mem', HitNGetAt(hn, f, j), f) = Load(mem, HitNGetAt(hn, f, j), f)
              /\ DOMAIN mem' = DOMAIN mem
              /\ \A a \in DOMAIN mem :
                    (a < rayhitn.ptr \/ a >= rayhitn.ptr + 20 * width) => mem'[a] = mem[a]
      ]_vars

C23_Witness ==
    /\ kind = "view" /\ width = 4 /\ rayhitn.ptr = 5
    /\ last.op = "rayn_set" /\ last.field = "flags" /\ last.lane = 3 /\ last.val = U32Max
    /\ ~last.panic
    /\ Load(mem, RayNGetAt(ray_n(rayhitn), "flags", 3), "flags") = U32Max
    /\ Load(mem, HitNGetAt(hit_n(rayhitn), "normal", 0), "normal") = <<0, 0, 0>>
    /\ Load(mem, RayNGetAt(ray_n(rayhitn), "flags", 2), "flags") = 0

\* C24: for a view whose len W equals the width of the buffer it was built
\* over, every accessor called with i < W reads or writes only elements
\* [0, 12*W) of a RayN, [0, 8*W) of a HitN and [0, 20*W) of the parent
\* buffer; an access outside the buffer takes a supplied width above the
\* buffer's real width, or i >= W with the debug assertion disabled.
C24_WithinBuffer ==
    kind = "view" =>
        LET rn == ray_n(rayhitn)
            hn == hit_n(rayhitn)
            B == rayhitn.ptr
            W == rayhitn.len
            RayPlaces(v, i) == UNION {Places(RayNGetAt(v, f, i)) \cup Places(RayNSetAt(v, f, i)) :
                                        f \in RayFields}
            HitPlaces(v, i) == UNION {Places(HitNGetAt(v, f, i)) \cup Places(HitNSetAt(v, f, i)) :
                                        f \in HitFields}
        IN  /\ W = width
            /\ DOMAIN mem = 0 .. (B + 20 * W - 1)
            /\ \A i \in Lanes(W) :
                  /\ RayPlaces(rn, i) \subseteq rn.ptr .. (rn.ptr + 12 * W - 1)
                  /\ HitPlaces(hn, i) \subseteq hn.ptr .. (hn.ptr + 8 * W - 1)
                  /\ RayPlaces(rn, i) \cup HitPlaces(hn, i) \subseteq B .. (B + 20 * W - 1)
            /\ last.touched \subseteq B .. (B + 20 * W - 1)
            /\ last.op \in {"rayn_set", "rayn_get", "hit_point"} =>
                  last.touched \subseteq rn.ptr .. (rn.ptr + 12 * W - 1)
            /\ last.op \in {"hitn_set", "hitn_get"} =>
                  last.touched \subseteq hn.ptr .. (hn.ptr + 8 * W - 1)
            \* the two ways out of the buffer
            /\ ~(HitPlaces(hn, W) \subseteq DOMAIN mem)
            /\ ~(RayPlaces([ptr |-> B, len |-> 2 * W], 0) \subseteq DOMAIN mem)

C24_Witness ==
    /\ kind = "view" /\ width = 16 /\ rayhitn.ptr = 5
    /\ last.op = "hitn_set" /\ last.field = "inst_id" /\ last.lane = 15 /\ ~last.panic
    /\ last.touched = {5 + 20 * 16 - 1}
    /\ mem[5 + 20 * 16 - 1] = last.val

C26_ContextConstructors ==
    LET Flags == {"COHERENT", "INCOHERENT"}
        Ctx(fl) == [flags |-> fl, filter |-> None, instID |-> <<U32Max>>]
        FlagOf(ctor, fl) == CASE ctor = "new" -> fl
                              [] ctor = "coherent" -> "COHERENT"
                              [] ctor = "incoherent" -> "INCOHERENT"
    IN  /\ \A fl \in Flags : IntersectContext_new(fl) = Ctx(fl)
        /\ IntersectContext_coherent = IntersectContext_new("COHERENT")
        /\ IntersectContext_incoherent = IntersectContext_new("INCOHERENT")
        /\ \A e \in ExtArgs :
              /\ \A fl \in Flags :
                    IntersectContextExt_new(fl, e) = [ctx |-> IntersectContext_new(fl), ext |-> e]
              /\ IntersectContextExt_coherent(e) = [ctx |-> IntersectContext_coherent, ext |-> e]
              /\ IntersectContextExt_incoherent(e) = [ctx |-> IntersectContext_incoherent, ext |-> e]
        /\ (kind = "scalar" /\ last.op = "IntersectContext") =>
              /\ last.ret = Ctx(FlagOf(last.field, last.val[1]))
              /\ obj.v = last.ret
        /\ (kind = "scalar" /\ last.op = "IntersectContextExt") =>
              /\ last.ret = [ctx |-> Ctx(FlagOf(last.field, last.val[1])), ext |-> last.val[2]]
              /\ obj.v = last.ret

C26_Witness ==
    /\ kind = "scalar" /\ obj.ty = "IntersectContextExt"
    /\ last.op = "IntersectContextExt" /\ last.field = "incoherent"
    /\ last.val = <<"COHERENT", <<7, 9>>>>
    /\ obj.v.ctx.flags = "INCOHERENT" /\ obj.v.ctx.instID = <<U32Max>>
    /\ obj.v.ctx.filter = None /\ obj.v.ext = <<7, 9>>

===========================================================================
